---- MODULE Spec2Model ----
(***************************************************************************)
(* photon: a command-line frontend of the cnvmp3 conversion service.       *)
(*                                                                         *)
(* Two parts of the program are modelled:                                  *)
(*   - youtube_url/mod.rs (and its copy in convert/mod.rs): the URL        *)
(*     classifier YouTubeURL::{get_type, get_id, validate, new}.  Strings  *)
(*     are sequences of one-character strings and the three regular        *)
(*     expressions are evaluated character by character.                   *)
(*   - convert/mod.rs: the orchestrator `download` and the CNVClient       *)
(*     requests it issues, one action per await point.                     *)
(***************************************************************************)
EXTENDS Integers, Sequences, FiniteSets, TLC

(***************************************************************************)
(* Bounds of the model.                                                    *)
(***************************************************************************)
MaxSegs == 2      \* path segments of a generated URL
MaxParams == 2    \* query parameters of a generated URL
MaxRuns == 2      \* consecutive runs of download
MaxNumber == 330
MaxCalls == 2  \* numbers passed to BitRate::from_number

(***************************************************************************)
(* Characters and string literals.                                         *)
(***************************************************************************)
Lower == {"a","b","c","d","e","f","g","h","i","j","k","l","m","n","o","p","q","r","s","t","u","v","w","x","y","z"}
Upper == {"A","B","C","D","E","F","G","H","I","J","K","L","M","N","O","P","Q","R","S","T","U","V","W","X","Y","Z"}
Digit == {"0","1","2","3","4","5","6","7","8","9"}

\* [a-zA-Z0-9_-]
IsIdChar(c) == c \in Lower \cup Upper \cup Digit \cup {"_", "-"}

\* \s of the regex crate (Unicode White_Space, the ASCII part)
IsSpace(c) == c \in {" ", "\t", "\n", "\r", "\f"}

\* . of the regex crate: any character except a line feed
IsDot(c) == c # "\n"

\* s[i..] starts with p
StartsWithAt(s, i, p) == /\ i >= 1
                         /\ i + Len(p) - 1 <= Len(s)
                         /\ SubSeq(s, i, i + Len(p) - 1) = p

\* s[..j] ends with p
EndsWithAt(s, j, p) == StartsWithAt(s, j - Len(p) + 1, p)

STR_https == <<"h","t","t","p","s",":","/","/">>
STR_youtube_com == <<"y","o","u","t","u","b","e",".","c","o","m","/">>
STR_youtu_be == <<"y","o","u","t","u",".","b","e","/">>
STR_shorts_ == <<"s","h","o","r","t","s","/">>
STR_embed_ == <<"e","m","b","e","d","/">>
STR_watch_ == <<"w","a","t","c","h","/">>
STR_v_ == <<"v","/">>
STR_watch_v == <<"w","a","t","c","h","?","v","=">>
STR_invalid == <<"i","n","v","a","l","i","d">>
STR_empty == <<>>

PATTERN_EMBED == <<"/","e","m","b","e","d">>
PATTERN_SHORT == <<"/","s","h","o","r","t","s">>
PATTERN_REGULAR == <<"/","w","a","t","c","h">>

\* {11} of the validation pattern
IdLen == 11

(***************************************************************************)
(* url::Url values.  A Url is kept in parsed form: host, path segments,    *)
(* whether the path ends in '/', and the query pairs in order.  path and   *)
(* as_str serialise it the way the url crate does for an https URL.        *)
(***************************************************************************)
HostWww == <<"w","w","w",".","y","o","u","t","u","b","e",".","c","o","m">>
HostBe == <<"y","o","u","t","u",".","b","e">>
HostOther == <<"e","x","a","m","p","l","e",".","c","o","m">>
\* a host that is no YouTube host and ends with the text youtube.com
HostNot == <<"n","o","t","y","o","u","t","u","b","e",".","c","o","m">>
Hosts == {HostWww, HostBe, HostOther, HostNot}

ID1 == <<"y","P","v","o","K","z","6","t","y","J","s">>
ID2 == <<"3","r","L","N","_","-","V","N","c","f","s">>
ShortId == <<"a","b","c">>

SegVocab == { <<"w","a","t","c","h">>, <<"s","h","o","r","t","s">>,
              <<"e","m","b","e","d">>, <<"s","h","o","r","t","s","x">>, ID2 }

ParamVocab == { [k |-> <<"v">>, v |-> ID1],
                [k |-> <<"v">>, v |-> ShortId],
                [k |-> <<"t">>, v |-> <<"1">>] }

SeqsUpTo(S, n) == UNION { [1..k -> S] : k \in 0..n }

URLs == { [host |-> h, segs |-> p, slash |-> sl, query |-> q] :
            h \in Hosts, p \in SeqsUpTo(SegVocab, MaxSegs),
            sl \in BOOLEAN, q \in SeqsUpTo(ParamVocab, MaxParams) }

RECURSIVE JoinSegs(_)
JoinSegs(segs) == IF segs = <<>> THEN <<>>
                  ELSE <<"/">> \o Head(segs) \o JoinSegs(Tail(segs))

RECURSIVE JoinQuery(_)
JoinQuery(q) == IF q = <<>> THEN <<>>
                ELSE Head(q).k \o <<"=">> \o Head(q).v
                     \o (IF Tail(q) = <<>> THEN <<>> ELSE <<"&">> \o JoinQuery(Tail(q)))

\* Url::path
path(u) == IF u.segs = <<>> THEN <<"/">>
             ELSE JoinSegs(u.segs) \o (IF u.slash THEN <<"/">> ELSE <<>>)

\* Url::as_str
as_str(u) == STR_https \o u.host \o path(u)
               \o (IF u.query = <<>> THEN <<>> ELSE <<"?">> \o JoinQuery(u.query))

\* a Url with an empty path has one serialisation whatever `slash` says
WellFormed(u) == u.segs = <<>> => ~u.slash

(***************************************************************************)
(* YouTubeURL                                                              *)
(***************************************************************************)
Kinds == {"Short", "Embed", "Regular", "Invalid"}

\* Regex ^\/watch, ^\/shorts, ^\/embed on url.path(), tried in this order
get_type(u) ==
    LET p == path(u) IN
    [ok |-> TRUE,
     val |-> IF StartsWithAt(p, 1, PATTERN_REGULAR) THEN "Regular"
             ELSE IF StartsWithAt(p, 1, PATTERN_SHORT) THEN "Short"
             ELSE IF StartsWithAt(p, 1, PATTERN_EMBED) THEN "Embed"
             ELSE "Invalid"]

\* (?:youtube\.com\/( [^\/]+\/.+\/ | (?:v|embed|watch|shorts)\/ | .*[?&]v= )
\* the part between youtube.com/ and the identifier is s[a..b]
PatternMiddle(s, a, b) ==
    \/ /\ b >= a + 3                       \* [^\/]+\/.+\/
       /\ s[b] = "/"
       /\ \E k \in (a+1)..(b-2) :
            /\ s[k] = "/"
            /\ \A m \in a..(k-1) : s[m] # "/"
            /\ \A m \in (k+1)..(b-1) : IsDot(s[m])
    \/ SubSeq(s, a, b) \in {STR_v_, STR_embed_, STR_watch_, STR_shorts_}
    \/ /\ b >= a + 2                       \* .*[?&]v=
       /\ s[b] = "=" /\ s[b-1] = "v" /\ s[b-2] \in {"?", "&"}
       /\ \A m \in a..(b-3) : IsDot(s[m])

\* the identifier of a match of the validation pattern may start at j
PatternIdAt(s, j) ==
    /\ j >= 1
    /\ j + IdLen - 1 <= Len(s)
    /\ \A m \in j..(j + IdLen - 1) : IsIdChar(s[m])
    /\ \/ j + IdLen > Len(s)               \* (?:[&?]|$)
       \/ s[j + IdLen] \in {"&", "?"}
    /\ \/ EndsWithAt(s, j - 1, STR_youtu_be)
       \/ \E i \in 1..(j - Len(STR_youtube_com)) :
            /\ StartsWithAt(s, i, STR_youtube_com)
            /\ PatternMiddle(s, i + Len(STR_youtube_com), j - 1)

\* Regex::is_match of the validation pattern (unanchored search)
PatternIsMatch(s) == \E j \in 1..Len(s) : PatternIdAt(s, j)

\* validate with the two tests exchanged
validate_kindfirst(self) ==
    IF self.type = "Invalid"
    THEN [ok |-> FALSE, kind |-> "InvalidURLType"]
    ELSE IF ~PatternIsMatch(as_str(self.url))
    THEN [ok |-> FALSE, kind |-> "InvalidURL"]
    ELSE [ok |-> TRUE, kind |-> "none"]

\* validate without the test of the kind
validate_nokind(self) ==
    IF ~PatternIsMatch(as_str(self.url))
    THEN [ok |-> FALSE, kind |-> "InvalidURL"]
    ELSE [ok |-> TRUE, kind |-> "none"]

\* YouTubeURL::validate on a value {url, type, id}
validate(self) ==
    IF ~PatternIsMatch(as_str(self.url))
    THEN [ok |-> FALSE, kind |-> "InvalidURL"]
    ELSE IF self.type = "Invalid"
    THEN [ok |-> FALSE, kind |-> "InvalidURLType"]
    ELSE [ok |-> TRUE, kind |-> "none"]

\* where the capture group of a match of the id pattern starting at i
\* begins, 0 when no alternative matches at i:
\* (?:(?:shorts|embed)\/(\S+)\/?)|(?:watch\?v=(\S+))
IdCaptureStart(s, i) ==
    LET c == IF StartsWithAt(s, i, STR_shorts_) THEN i + Len(STR_shorts_)
             ELSE IF StartsWithAt(s, i, STR_embed_) THEN i + Len(STR_embed_)
             ELSE IF StartsWithAt(s, i, STR_watch_v) THEN i + Len(STR_watch_v)
             ELSE 0
    IN IF c # 0 /\ c <= Len(s) /\ ~IsSpace(s[c]) THEN c ELSE 0

\* greedy \S+ from c: the last index of the run of non-space characters
RECURSIVE RunEnd(_, _)
RunEnd(s, c) == IF c + 1 <= Len(s) /\ ~IsSpace(s[c + 1]) THEN RunEnd(s, c + 1) ELSE c

\* captures_iter: the leftmost match from `from`, then on from its end;
\* the loop body keeps the capture of the last match
RECURSIVE LastCapture(_, _, _)
LastCapture(s, from, acc) ==
    LET starts == { i \in from..Len(s) : IdCaptureStart(s, i) # 0 } IN
    IF starts = {} THEN acc
    ELSE LET i == CHOOSE x \in starts : \A y \in starts : x <= y
             c == IdCaptureStart(s, i)
             e == RunEnd(s, c)
         IN LastCapture(s, e + 1, SubSeq(s, c, e))

\* get_id without the Invalid arm
get_id_noinvalid(u, type) ==
    [ok |-> TRUE, val |-> LastCapture(as_str(u), 1, STR_empty)]

\* YouTubeURL::get_id
get_id(u, type) ==
    [ok |-> TRUE,
     val |-> IF type = "Invalid" THEN STR_invalid
             ELSE LastCapture(as_str(u), 1, STR_empty)]

\* YouTubeURL::new
YouTubeURL_new(u) ==
    LET type == get_type(u).val
        id == get_id(u, type).val
        y == [url |-> u, type |-> type, id |-> id]
        e == validate(y)
    IN IF ~e.ok
       THEN [ok |-> FALSE, kind |-> "InvalidURL", inner |-> e.kind]
       ELSE [ok |-> TRUE, val |-> y]

(***************************************************************************)
(* convert/mod.rs: payloads, responses, files.                             *)
(***************************************************************************)
BitRate == {"Kbps320", "Kbps256", "Kbps128", "Kbps96"}

\* from_number with the arm of 128 returning the variant of the next arm
from_number_slip(n) ==
    IF n = 320 THEN [ok |-> TRUE, val |-> "Kbps320", value |-> n]
    ELSE IF n = 256 THEN [ok |-> TRUE, val |-> "Kbps256", value |-> n]
    ELSE IF n = 128 THEN [ok |-> TRUE, val |-> "Kbps96", value |-> n]
    ELSE IF n = 96 THEN [ok |-> TRUE, val |-> "Kbps96", value |-> n]
    ELSE [ok |-> FALSE, val |-> "FromNumberError", value |-> n]

\* BitRate::from_number on n.into(): u64; `value` is the field of
\* FromNumberError (kept in the Ok results to give them one shape)
from_number(n) ==
    IF n = 320 THEN [ok |-> TRUE, val |-> "Kbps320", value |-> n]
    ELSE IF n = 256 THEN [ok |-> TRUE, val |-> "Kbps256", value |-> n]
    ELSE IF n = 128 THEN [ok |-> TRUE, val |-> "Kbps128", value |-> n]
    ELSE IF n = 96 THEN [ok |-> TRUE, val |-> "Kbps96", value |-> n]
    ELSE [ok |-> FALSE, val |-> "FromNumberError", value |-> n]

\* DLFormat::MP3 as usize
DLFormat_MP3 == 1

NoField == "no_field"
ServerPaths == {"cdn/a", "cdn/b"}
Titles == {"title 1", "title 2"}
ErrTexts == {"remote error"}
Messages == {"inserted"}

\* a reply of the remote: http = "fail" when the request fails or the body is
\* not JSON; success is the boolean `success` field, "absent" when the JSON
\* value has no such boolean.  server_path, title, download_link, message
\* and error carry the value of that field when the JSON value fits the
\* schema struct with that field (CheckDatabaseExist, CheckDatabaseNoExist,
\* GetVideoData, ...), and NoField when serde cannot parse it as that struct
CheckDatabaseReplies ==
    { [http |-> "ok", success |-> "true", server_path |-> p, error |-> NoField] :
        p \in ServerPaths }
    \cup { [http |-> "ok", success |-> "false", server_path |-> NoField, error |-> e] : e \in ErrTexts }
    \cup { [http |-> "ok", success |-> s, server_path |-> NoField, error |-> NoField] :
             s \in {"true", "false", "absent"} }
    \cup { [http |-> "fail", success |-> "absent", server_path |-> NoField, error |-> NoField] }

GetVideoDataReplies ==
    { [http |-> "ok", success |-> "true", title |-> t, error |-> NoField] : t \in Titles }
    \cup { [http |-> "ok", success |-> "false", title |-> NoField, error |-> e] : e \in ErrTexts }
    \cup { [http |-> "ok", success |-> s, title |-> NoField, error |-> NoField] :
             s \in {"true", "false", "absent"} }
    \cup { [http |-> "fail", success |-> "absent", title |-> NoField, error |-> NoField] }

DownloadVideoReplies ==
    { [http |-> "ok", success |-> "true", download_link |-> p, error |-> NoField] :
        p \in ServerPaths }
    \cup { [http |-> "ok", success |-> "false", download_link |-> NoField, error |-> e] :
             e \in ErrTexts }
    \cup { [http |-> "ok", success |-> s, download_link |-> NoField, error |-> NoField] :
             s \in {"true", "false", "absent"} }
    \cup { [http |-> "fail", success |-> "absent", download_link |-> NoField, error |-> NoField] }

InsertToDatabaseReplies ==
    { [http |-> "ok", success |-> "true", message |-> m, error |-> NoField] : m \in Messages }
    \cup { [http |-> "ok", success |-> "false", message |-> NoField, error |-> e] : e \in ErrTexts }
    \cup { [http |-> "ok", success |-> s, message |-> NoField, error |-> NoField] :
             s \in {"true", "false", "absent"} }
    \cup { [http |-> "fail", success |-> "absent", message |-> NoField, error |-> NoField] }

\* bodies the CDN may deliver
Bodies == {"mp3 bytes A", "mp3 bytes B", "html page"}

\* a test that takes every body for MP3
is_mp3_any(b) == b \in Bodies

\* infer::audio::is_mp3
is_mp3(b) == b \in {"mp3 bytes A", "mp3 bytes B"}

\* what is on disk after File::create succeeded and write_all failed
PartialContent == "partial content"

CdnReplies ==
    { [http |-> "ok", body |-> b, create_ok |-> c, write_ok |-> w] :
        b \in Bodies, c \in BOOLEAN, w \in BOOLEAN }
    \cup { [http |-> "fail", body |-> NoField, create_ok |-> TRUE, write_ok |-> TRUE] }

\* a file name that does not depend on the identifier
Mp3Path_fixed(id) == <<"mp3/", <<"o", "u", "t">>, ".mp3">>

\* format!("mp3/{}.mp3", youtube_id)
Mp3Path(id) == <<"mp3/", id, ".mp3">>

\* the URLs download is run on
U(host, segs, query) == [host |-> host, segs |-> segs, slash |-> FALSE, query |-> query]

DownloadURLs ==
    { U(HostWww, << <<"w","a","t","c","h">> >>, << [k |-> <<"v">>, v |-> ID1] >>),
      U(HostWww, << <<"w","a","t","c","h">> >>,
        << [k |-> <<"v">>, v |-> ID1], [k |-> <<"t">>, v |-> <<"1">>] >>),
      U(HostWww, << <<"s","h","o","r","t","s">>, ID2 >>, <<>>),
      U(HostWww, << <<"e","m","b","e","d">>, ID2 >>, <<>>),
      U(HostBe, << ID2 >>, <<>>),
      U(HostWww, << <<"w","a","t","c","h">> >>, << [k |-> <<"v">>, v |-> ShortId] >>) }

\* YouTubeURL::new on each of them
NewOf == [u \in DownloadURLs |-> YouTubeURL_new(u)]

(***************************************************************************)
(* State.                                                                  *)
(***************************************************************************)
VARIABLES
    u_url,     \* the Url a YouTubeURL function is called on
    u_op,      \* the function called: "none", "get_type", "get_id", "new"
    u_type,    \* the kind passed to get_id
    u_ret,     \* what the function returned
    u_n,       \* the number passed to BitRate::from_number
    url,           \* download: argument `url`
    quality,       \* download: argument `quality`
    pc,            \* download: "idle", the request awaited, or "done"
    result,        \* download: "none", "Ok", "Err" or "Panic"
    err,           \* download: the error returned
    youtube_url,   \* download: the YouTubeURL value
    reqs,          \* the remote requests issued by this run, in order
    checkdb_res,   \* download: reply of check_database
    getvd_res,     \* download: reply of get_video_data
    dv_res,        \* download: reply of download_video
    dl_res,        \* download: reply of insert_to_database
    cdn_res,       \* cdn_download: what the GET delivered and how the write went
    wire,          \* the JSON bodies of the requests of this run, as serialised
    files,         \* the local files: path -> content
    files0,        \* the local files when this run started
    runs           \* runs of download started so far

uvars == <<u_url, u_op, u_type, u_ret, u_n>>
dvars == <<url, quality, pc, result, err, youtube_url, reqs, checkdb_res, getvd_res,
           dv_res, dl_res, cdn_res, wire, files, files0, runs>>
vars == <<uvars, dvars>>

NoRet == [ok |-> TRUE, val |-> "none"]
NoReply == [http |-> "none", success |-> "absent"]
NoYouTubeURL == [url |-> U(<<>>, <<>>, <<>>), type |-> "Invalid", id |-> <<>>]
NoFiles == [p \in {} |-> ""]
NoError == [msg |-> "none", detail |-> "none"]
NoCdnReply == [http |-> "none", body |-> NoField, create_ok |-> TRUE, write_ok |-> TRUE]

UrlIdle == /\ u_url = U(<<>>, <<>>, <<>>)
           /\ u_op = "none"
           /\ u_type = "Invalid"
           /\ u_ret = NoRet
           /\ u_n = 0

DownloadIdle == /\ url = U(<<>>, <<>>, <<>>)
                /\ quality = "Kbps128"
                /\ pc = "idle"
                /\ result = "none"
                /\ err = NoError
                /\ youtube_url = NoYouTubeURL
                /\ reqs = <<>>
                /\ checkdb_res = NoReply
                /\ getvd_res = NoReply
                /\ dv_res = NoReply
                /\ dl_res = NoReply
                /\ cdn_res = NoCdnReply
                /\ wire = <<>>
                /\ files = NoFiles
                /\ files0 = NoFiles
                /\ runs = 0

(***************************************************************************)
(* The YouTubeURL functions called on every generated Url.                 *)
(***************************************************************************)
InitURL == /\ u_url \in { u \in URLs : WellFormed(u) }
           /\ u_op = "none"
           /\ u_type = "Invalid"
           /\ u_ret = NoRet
           /\ u_n = 0
           /\ DownloadIdle

CallGetType == /\ u_op = "none"
               /\ u_op' = "get_type"
               /\ u_ret' = get_type(u_url)
               /\ UNCHANGED <<u_url, u_type, u_n, dvars>>

CallGetId == /\ u_op = "none"
             /\ \E t \in Kinds :
                  /\ u_type' = t
                  /\ u_ret' = get_id(u_url, t)
             /\ u_op' = "get_id"
             /\ UNCHANGED <<u_url, u_n, dvars>>

CallNew == /\ u_op = "none"
           /\ u_op' = "new"
           /\ u_ret' = YouTubeURL_new(u_url)
           /\ UNCHANGED <<u_url, u_type, u_n, dvars>>

\* validate on a YouTubeURL value of this Url; the fields of the struct are
\* public, so the kind is any kind
CallValidate == /\ u_op = "none"
                /\ \E t \in Kinds :
                     /\ u_type' = t
                     /\ u_ret' = validate([url |-> u_url, type |-> t,
                                           id |-> get_id(u_url, t).val])
                /\ u_op' = "validate"
                /\ UNCHANGED <<u_url, u_n, dvars>>

NextURL == CallGetType \/ CallGetId \/ CallNew \/ CallValidate

SpecURL == InitURL /\ [][NextURL]_vars

(***************************************************************************)
(* bitrate/mod.rs: BitRate::from_number called on every number.            *)
(***************************************************************************)
InitBitRate == /\ u_url = U(<<>>, <<>>, <<>>)
               /\ u_op = "none"
               /\ u_type = "Invalid"
               /\ u_ret = NoRet
               /\ u_n \in 0..MaxNumber
               /\ DownloadIdle

CallFromNumber == /\ u_op = "none"
                  /\ u_op' = "from_number"
                  /\ u_ret' = from_number(u_n)
                  /\ UNCHANGED <<u_url, u_type, u_n, dvars>>

NextBitRate == CallFromNumber

SpecBitRate == InitBitRate /\ [][NextBitRate]_vars

(***************************************************************************)
(* convert/mod.rs: download, one action per await point.                   *)
(***************************************************************************)
Init == UrlIdle /\ DownloadIdle

\* the test for the local file made on another file name
Exists_othername(fs, p) == <<p[1], p[2], ".mp4">> \in DOMAIN fs

\* Path::exists
Exists(fs, p) == p \in DOMAIN fs

\* a write that leaves p as the only file
WriteFile_only(fs, p, c) == [x \in {p} |-> c]

\* a write that is lost
WriteFile_lost(fs, p, c) == fs

\* the file system after the file p has content c
WriteFile(fs, p, c) == [x \in DOMAIN fs \cup {p} |-> IF x = p THEN c ELSE fs[x]]

\* check_database with the quality fixed to 96 kb/s whatever the caller passes
PayloadCheckDatabase_fixedq(youtube_id, q) ==
    [ep |-> "check_database", format_value |-> DLFormat_MP3, quality |-> "Kbps96",
     youtube_id |-> youtube_id]

\* payloads built by the CNVClient methods
PayloadCheckDatabase(youtube_id, q) ==
    [ep |-> "check_database", format_value |-> DLFormat_MP3, quality |-> q,
     youtube_id |-> youtube_id]

PayloadGetVideoData(u) == [ep |-> "get_video_data", url |-> u]

PayloadDownloadVideo(u, title, q) ==
    [ep |-> "download_video", format_value |-> DLFormat_MP3, quality |-> q,
     title |-> title, url |-> u]

\* insert_to_database with server_path and title exchanged
PayloadInsertToDatabase_swapped(server_path, title, youtube_id, q) ==
    [ep |-> "insert_to_database", format_value |-> DLFormat_MP3, quality |-> q,
     server_path |-> title, title |-> server_path, youtube_id |-> youtube_id]

PayloadInsertToDatabase(server_path, title, youtube_id, q) ==
    [ep |-> "insert_to_database", format_value |-> DLFormat_MP3, quality |-> q,
     server_path |-> server_path, title |-> title, youtube_id |-> youtube_id]

\* the GET sent to the site instead of the location passed in
CdnGet_site(server_path) == [ep |-> "cdn_download", server_path |-> "https://cnvmp3.com"]

\* the GET of cdn_download
CdnGet(server_path) == [ep |-> "cdn_download", server_path |-> server_path]

\* the discriminants of the enum (`as usize`)
BitRateCode(q) == CASE q = "Kbps320" -> 0
                    [] q = "Kbps256" -> 1
                    [] q = "Kbps128" -> 4
                    [] q = "Kbps96" -> 5

\* derive(Serialize) on the unit variants of BitRate: serde_json writes the
\* name of the variant as a JSON string
SerializeBitRate(q) == CASE q = "Kbps320" -> "\"Kbps320\""
                         [] q = "Kbps256" -> "\"Kbps256\""
                         [] q = "Kbps128" -> "\"Kbps128\""
                         [] q = "Kbps96" -> "\"Kbps96\""

\* .json(&payload): the body sent; quality and formatValue are given as
\* their JSON text, the string fields as their content
Serialize(req) ==
    IF req.ep = "check_database"
    THEN [ep |-> req.ep, formatValue |-> ToString(req.format_value),
          quality |-> SerializeBitRate(req.quality), youtube_id |-> req.youtube_id]
    ELSE IF req.ep = "get_video_data"
    THEN [ep |-> req.ep, url |-> as_str(req.url)]
    ELSE IF req.ep = "download_video"
    THEN [ep |-> req.ep, formatValue |-> ToString(req.format_value),
          quality |-> SerializeBitRate(req.quality), title |-> req.title,
          url |-> as_str(req.url)]
    ELSE IF req.ep = "insert_to_database"
    THEN [ep |-> req.ep, formatValue |-> ToString(req.format_value),
          quality |-> SerializeBitRate(req.quality), server_path |-> req.server_path,
          title |-> req.title, youtube_id |-> req.youtube_id]
    ELSE [ep |-> req.ep, server_path |-> req.server_path]

Return(r, e) == /\ pc' = "done"
                /\ result' = r
                /\ err' = e

Ok == Return("Ok", NoError)
Err(msg, detail) == Return("Err", [msg |-> msg, detail |-> detail])
Panic(msg) == Return("Panic", [msg |-> msg, detail |-> "none"])

\* a request that is sent again when it was sent
Send_twice(req, next) == /\ reqs' = Append(Append(reqs, req), req)
                         /\ wire' = Append(Append(wire, Serialize(req)), Serialize(req))
                         /\ pc' = next
                         /\ UNCHANGED <<result, err>>

Send(req, next) == /\ reqs' = Append(reqs, req)
                   /\ wire' = Append(wire, Serialize(req))
                   /\ pc' = next
                   /\ UNCHANGED <<result, err>>

\* CNVClient::check_database: what the method returns for the reply r
check_database(r) == IF r.http = "fail" THEN [ok |-> FALSE, val |-> r]
                     ELSE [ok |-> TRUE, val |-> r]

\* download up to the first await: YouTubeURL::new(url).unwrap(), the test
\* for the local file, the check_database request
download(u, q) ==
    /\ pc \in {"idle", "done"}
    /\ runs < MaxRuns
    /\ runs' = runs + 1
    /\ url' = u
    /\ quality' = q
    /\ files0' = files
    /\ checkdb_res' = NoReply
    /\ getvd_res' = NoReply
    /\ dv_res' = NoReply
    /\ dl_res' = NoReply
    /\ cdn_res' = NoCdnReply
    /\ UNCHANGED <<uvars, files>>
    /\ LET n == NewOf[u] IN
       IF ~n.ok
       THEN /\ Panic("called Result::unwrap() on an Err value")
            /\ youtube_url' = NoYouTubeURL
            /\ reqs' = <<>>
            /\ wire' = <<>>
       ELSE /\ youtube_url' = n.val
            /\ IF Exists(files, Mp3Path(n.val.id))
               THEN Ok /\ reqs' = <<>> /\ wire' = <<>>
               ELSE /\ reqs' = <<PayloadCheckDatabase(n.val.id, q)>>
                    /\ wire' = <<Serialize(PayloadCheckDatabase(n.val.id, q))>>
                    /\ pc' = "check_database"
                    /\ result' = "none"
                    /\ err' = NoError

\* the reply of check_database arrives
check_database_reply(r) ==
    /\ pc = "check_database"
    /\ checkdb_res' = r
    /\ UNCHANGED <<uvars, url, quality, youtube_url, getvd_res, dv_res, dl_res,
                   cdn_res, files, files0, runs>>
    /\ IF ~check_database(r).ok
       THEN Err("reqwest or serde error", "/check_database.php") /\ UNCHANGED <<reqs, wire>>
       ELSE IF r.success = "absent"
       THEN /\ Err("Unable to reference field success", "/check_database.php")
            /\ UNCHANGED <<reqs, wire>>
       ELSE IF r.success = "true"
       THEN IF r.server_path = NoField
            THEN Panic("Parsing as CheckDatabaseExist should work") /\ UNCHANGED <<reqs, wire>>
            ELSE Send(CdnGet(r.server_path), "cdn_download")
       ELSE IF r.error = NoField
            THEN Panic("Parsing as CheckDatabaseNoExist should work") /\ UNCHANGED <<reqs, wire>>
            ELSE Send(PayloadGetVideoData(youtube_url.url), "get_video_data")

\* the reply of get_video_data arrives
get_video_data_reply(r) ==
    /\ pc = "get_video_data"
    /\ getvd_res' = r
    /\ UNCHANGED <<uvars, url, quality, youtube_url, checkdb_res, dv_res, dl_res,
                   cdn_res, files, files0, runs>>
    /\ IF r.http = "fail"
       THEN Err("reqwest or serde error", "/get_video_data.php") /\ UNCHANGED <<reqs, wire>>
       ELSE IF r.success = "absent"
       THEN /\ Err("Unable to reference field success", "/get_video_data.php")
            /\ UNCHANGED <<reqs, wire>>
       ELSE IF r.success = "false"
       THEN IF r.error = NoField
            THEN Panic("Parsing as GetVideoDataError should work") /\ UNCHANGED <<reqs, wire>>
            ELSE Err("/get_video_data.php failed..", r.error) /\ UNCHANGED <<reqs, wire>>
       ELSE IF r.title = NoField
            THEN Panic("Parsing as GetVideoData should work") /\ UNCHANGED <<reqs, wire>>
            ELSE Send(PayloadDownloadVideo(youtube_url.url, r.title, quality),
                      "download_video")

\* the reply of download_video arrives
download_video_reply(r) ==
    /\ pc = "download_video"
    /\ dv_res' = r
    /\ UNCHANGED <<uvars, url, quality, youtube_url, checkdb_res, getvd_res, dl_res,
                   cdn_res, files, files0, runs>>
    /\ IF r.http = "fail"
       THEN Err("reqwest or serde error", "/download_video.php") /\ UNCHANGED <<reqs, wire>>
       ELSE IF r.success = "absent"
       THEN /\ Err("Unable to reference field success", "/download_video.php")
            /\ UNCHANGED <<reqs, wire>>
       ELSE IF r.success = "false"
       THEN IF r.error = NoField
            THEN Panic("Parsing as DownloadVideoError should work") /\ UNCHANGED <<reqs, wire>>
            ELSE Err("/download_video.php failed..", r.error) /\ UNCHANGED <<reqs, wire>>
       ELSE IF r.download_link = NoField
            THEN Panic("Parsing as DownloadVideoData should work") /\ UNCHANGED <<reqs, wire>>
            ELSE Send(PayloadInsertToDatabase(r.download_link, getvd_res.title,
                                              youtube_url.id, quality),
                      "insert_to_database")

\* the reply of insert_to_database arrives
insert_to_database_reply(r) ==
    /\ pc = "insert_to_database"
    /\ dl_res' = r
    /\ UNCHANGED <<uvars, url, quality, youtube_url, checkdb_res, getvd_res, dv_res,
                   cdn_res, files, files0, runs>>
    /\ IF r.http = "fail"
       THEN Err("reqwest or serde error", "/insert_to_database.php") /\ UNCHANGED <<reqs, wire>>
       ELSE IF r.success = "absent"
       THEN /\ Err("Unable to reference field success", "/insert_to_database.php")
            /\ UNCHANGED <<reqs, wire>>
       ELSE IF r.success = "false"
       THEN IF r.error = NoField
            THEN Panic("Parsing as InsertToDatabaseError should work") /\ UNCHANGED <<reqs, wire>>
            ELSE Err("/insert_to_database.php failed..", r.error) /\ UNCHANGED <<reqs, wire>>
       ELSE IF r.message = NoField
            THEN Panic("Parsing as InsertToDatabaseData should work") /\ UNCHANGED <<reqs, wire>>
            ELSE Send(CdnGet(dv_res.download_link), "cdn_download")

\* CNVClient::cdn_download from its GET on, and the end of download
cdn_download_reply(r) ==
    /\ pc = "cdn_download"
    /\ cdn_res' = r
    /\ UNCHANGED <<uvars, url, quality, youtube_url, reqs, wire, checkdb_res, getvd_res,
                   dv_res, dl_res, files0, runs>>
    /\ LET cached == checkdb_res.success = "true"
           p == Mp3Path(youtube_url.id)
           wrap == IF cached THEN "" ELSE "error: "
       IN IF r.http = "fail"
          THEN Err(wrap, "reqwest error") /\ UNCHANGED files
          ELSE IF ~is_mp3(r.body)
          THEN Err(wrap, "downloaded content is not an mp3 file") /\ UNCHANGED files
          ELSE IF ~r.create_ok
          THEN Panic("file creation should succeed") /\ UNCHANGED files
          ELSE IF ~r.write_ok
          THEN Err(wrap, "io error") /\ files' = WriteFile(files, p, PartialContent)
          ELSE Ok /\ files' = WriteFile(files, p, r.body)

Next ==
    \/ \E u \in DownloadURLs, q \in BitRate : download(u, q)
    \/ \E r \in CheckDatabaseReplies : check_database_reply(r)
    \/ \E r \in GetVideoDataReplies : get_video_data_reply(r)
    \/ \E r \in DownloadVideoReplies : download_video_reply(r)
    \/ \E r \in InsertToDatabaseReplies : insert_to_database_reply(r)
    \/ \E r \in CdnReplies : cdn_download_reply(r)

Spec == Init /\ [][Next]_vars

(***************************************************************************)
(* Properties of YouTubeURL, checked under SpecURL.                        *)
(***************************************************************************)
STR_watch == <<"w","a","t","c","h">>
STR_shorts == <<"s","h","o","r","t","s">>
STR_embed == <<"e","m","b","e","d">>

\* the kind a path has by its shape: its first segment is watch, shorts or embed
ShapeKind(u) ==
    IF u.segs = <<>> THEN "Invalid"
    ELSE IF u.segs[1] = STR_watch THEN "Regular"
    ELSE IF u.segs[1] = STR_shorts THEN "Short"
    ELSE IF u.segs[1] = STR_embed THEN "Embed"
    ELSE "Invalid"

\* the values of the query parameters named v
VValues(u) == { u.query[i].v : i \in { j \in DOMAIN u.query : u.query[j].k = <<"v">> } }

\* C1: get_type returns Ok with the kind of the path's shape: Regular for
\* /watch, Short for /shorts/..., Embed for /embed/..., Invalid for every
\* other path.
C1_KindByShape ==
    u_op = "get_type" => u_ret.ok /\ u_ret.val = ShapeKind(u_url)

\* C2: for a URL of kind Regular get_id returns the value of the v query
\* parameter, wherever v stands among the query parameters.
C2_RegularIdIsV ==
    (/\ u_op = "get_id"
     /\ u_type = "Regular"
     /\ ShapeKind(u_url) = "Regular"
     /\ VValues(u_url) # {})
    => u_ret.ok /\ u_ret.val \in VValues(u_url)

\* C3: for a URL of kind Short or Embed get_id returns the one path segment
\* after /shorts/ or /embed/, without trailing slash, later segments or query.
C3_SegmentIdIsNextSegment ==
    (/\ u_op = "get_id"
     /\ u_type \in {"Short", "Embed"}
     /\ ShapeKind(u_url) = u_type
     /\ Len(u_url.segs) >= 2)
    => u_ret.ok /\ u_ret.val = u_url.segs[2]

\* C4: for kind Invalid get_id returns Ok("invalid") whatever the URL is.
C4_InvalidIdIsLiteral ==
    (u_op = "get_id" /\ u_type = "Invalid")
    => u_ret.ok /\ u_ret.val = <<"i","n","v","a","l","i","d">>

\* get_id was called with kind Invalid on a URL that has a v parameter and a
\* /watch path, and returned
C4_Witness ==
    /\ u_op = "get_id"
    /\ u_type = "Invalid"
    /\ ShapeKind(u_url) = "Regular"
    /\ VValues(u_url) # {}
    /\ u_ret.val = <<"i","n","v","a","l","i","d">>

\* C5: new returns Ok exactly when the kind of the URL is not Invalid and the
\* URL string matches the validation pattern; otherwise it returns an error
\* and no YouTubeURL value.
C5_NewOkIff ==
    u_op = "new" =>
       /\ u_ret.ok <=> (get_type(u_url).val # "Invalid" /\ PatternIsMatch(as_str(u_url)))
       /\ u_ret.ok => u_ret.val.url = u_url
       /\ ~u_ret.ok => "val" \notin DOMAIN u_ret

\* new rejected a URL that matches the pattern because its kind is Invalid
C5_Witness ==
    /\ u_op = "new"
    /\ ~u_ret.ok
    /\ PatternIsMatch(as_str(u_url))
    /\ get_type(u_url).val = "Invalid"

\* C6: the error of new has kind InvalidURL when the URL fails the pattern and
\* kind InvalidURLType when it matches the pattern and its kind is Invalid.
C6_ErrorKindTellsCause ==
    (u_op = "new" /\ ~u_ret.ok)
    => u_ret.kind = (IF ~PatternIsMatch(as_str(u_url)) THEN "InvalidURL"
                     ELSE "InvalidURLType")

(***************************************************************************)
(* Properties of download (convert/mod.rs), checked under Spec.            *)
(***************************************************************************)
\* this run got a YouTubeURL value from YouTubeURL::new
HasId == runs > 0 /\ NewOf[url].ok

\* this run started with the local file of its identifier on disk
Skipped == HasId /\ <<"mp3/", youtube_url.id, ".mp3">> \in DOMAIN files0

\* C7: when mp3/<id>.mp3 exists at the start of a run, the run issues no
\* remote request, leaves the files as they are and returns Ok.
C7_SkipWhenFileExists ==
    Skipped => /\ pc = "done"
               /\ result = "Ok"
               /\ reqs = <<>>
               /\ files = files0

\* a second run found the file the first one saved
C7_Witness ==
    /\ Skipped
    /\ runs = 2
    /\ result = "Ok"
    /\ reqs = <<>>

\* C8: the first request of a run that got its YouTubeURL and is not skipped
\* is check_database with the identifier of the YouTubeURL and the caller's
\* quality; download_video and insert_to_database carry the same quality.
C8_CheckFirstSameQuality ==
    (HasId /\ ~Skipped) =>
       /\ Len(reqs) >= 1
       /\ reqs[1].ep = "check_database"
       /\ reqs[1].youtube_id = youtube_url.id
       /\ reqs[1].quality = quality
       /\ \A i \in 2..Len(reqs) :
            /\ reqs[i].ep # "check_database"
            /\ reqs[i].ep \in {"download_video", "insert_to_database"}
                 => reqs[i].quality = quality

\* a run at 320 kb/s has sent check_database, download_video and
\* insert_to_database
C8_Witness ==
    /\ HasId
    /\ quality = "Kbps320"
    /\ Len(reqs) >= 4
    /\ reqs[1].ep = "check_database"
    /\ reqs[3].ep = "download_video"
    /\ reqs[4].ep = "insert_to_database"

\* the existence check of this run answered success = true / false
Cached == pc # "check_database" /\ checkdb_res.http = "ok" /\ checkdb_res.success = "true"
NotCached == pc # "check_database" /\ checkdb_res.http = "ok" /\ checkdb_res.success = "false"

\* C9: after a check_database reply with success = true the only further
\* request is the GET of the server_path of that reply; get_video_data,
\* download_video and insert_to_database are not called.
C9_CachedOnlyDownloads ==
    Cached =>
       /\ Len(reqs) <= 2
       /\ checkdb_res.server_path # NoField => Len(reqs) = 2
       /\ Len(reqs) = 2 => /\ reqs[2].ep = "cdn_download"
                           /\ reqs[2].server_path = checkdb_res.server_path
       /\ \A i \in 1..Len(reqs) :
            reqs[i].ep \notin {"get_video_data", "download_video", "insert_to_database"}

\* a cached run ended Ok after downloading from the second location
C9_Witness ==
    /\ Cached
    /\ pc = "done"
    /\ result = "Ok"
    /\ Len(reqs) = 2
    /\ reqs[2].server_path = "cdn/b"

\* C10: after a check_database reply with success = false the requests are
\* get_video_data, download_video, insert_to_database, file download in this
\* order, each after the one before answered success = true, and the title
\* sent to download_video and insert_to_database is the one get_video_data
\* returned.
C10_NotCachedOrder ==
    NotCached =>
       /\ Len(reqs) <= 5
       /\ Len(reqs) >= 2 => reqs[2].ep = "get_video_data"
       /\ Len(reqs) >= 3 => /\ reqs[3].ep = "download_video"
                            /\ getvd_res.http = "ok" /\ getvd_res.success = "true"
                            /\ reqs[3].title = getvd_res.title
       /\ Len(reqs) >= 4 => /\ reqs[4].ep = "insert_to_database"
                            /\ dv_res.http = "ok" /\ dv_res.success = "true"
                            /\ reqs[4].title = getvd_res.title
       /\ Len(reqs) >= 5 => /\ reqs[5].ep = "cdn_download"
                            /\ dl_res.http = "ok" /\ dl_res.success = "true"

\* a run that was not cached went through all five requests and ended Ok
C10_Witness ==
    /\ NotCached
    /\ pc = "done"
    /\ result = "Ok"
    /\ Len(reqs) = 5
    /\ reqs[4].title = "title 2"

\* the GET of cdn_download delivered a body that is / is not MP3
DeliveredMp3 == cdn_res.http = "ok" /\ cdn_res.body \in {"mp3 bytes A", "mp3 bytes B"}
DeliveredOther == cdn_res.http = "ok" /\ cdn_res.body = "html page"

\* C11: a body that is not MP3 is rejected, on the cached and the not-cached
\* path: no file is created or changed and download returns Err; the files
\* only change after a body was verified as MP3.
C11_Mp3VerifiedBeforeWrite ==
    /\ DeliveredOther => /\ pc = "done"
                         /\ result = "Err"
                         /\ files = files0
    /\ files # files0 => DeliveredMp3

\* a not-cached run got a page that is not MP3 after its five requests
C11_Witness ==
    /\ DeliveredOther
    /\ NotCached
    /\ Len(reqs) = 5
    /\ result = "Err"
    /\ files = files0

\* the run is on a Regular URL that YouTubeURL::new accepted
RegularRun == HasId /\ pc = "done" /\ youtube_url.type = "Regular"

C13_RemoteFailureIsErr ==
    \A k \in 2..4 :
       LET r == IF k = 2 THEN getvd_res ELSE IF k = 3 THEN dv_res ELSE dl_res IN
       (r.http = "ok" /\ r.success = "false")
       => /\ pc = "done"
          /\ result = "Err"
          /\ err.detail = r.error
          /\ Len(reqs) = k
          /\ files = files0

(***************************************************************************)
(* Properties of BitRate, checked under SpecBitRate.                       *)
(***************************************************************************)
\* C14: from_number gives Kbps320, Kbps256, Kbps128, Kbps96 for 320, 256,
\* 128, 96 and for every other number an error that carries the number.
C14_FromNumber ==
    u_op = "from_number" =>
       /\ u_n = 320 => u_ret.ok /\ u_ret.val = "Kbps320"
       /\ u_n = 256 => u_ret.ok /\ u_ret.val = "Kbps256"
       /\ u_n = 128 => u_ret.ok /\ u_ret.val = "Kbps128"
       /\ u_n = 96 => u_ret.ok /\ u_ret.val = "Kbps96"
       /\ u_n \notin {320, 256, 128, 96} => ~u_ret.ok /\ u_ret.value = u_n

\* from_number was called on 128 and returned the variant of 128
C14_Witness ==
    /\ u_op = "from_number"
    /\ u_n = 128
    /\ u_ret.ok
    /\ u_ret.val = "Kbps128"

(***************************************************************************)
(* More properties of download (convert/mod.rs), checked under Spec.       *)
(***************************************************************************)
\* C15: in the bodies of check_database, download_video and
\* insert_to_database, quality is the number assigned to the bit rate in the
\* enum (0, 1, 4, 5) and formatValue is 1.
C15_QualityIsCode ==
    \A i \in 1..Len(wire) :
       wire[i].ep \in {"check_database", "download_video", "insert_to_database"}
       => /\ wire[i].quality = ToString(BitRateCode(quality))
          /\ wire[i].formatValue = "1"

(***************************************************************************)
(* More properties of YouTubeURL, checked under SpecURL.                   *)
(***************************************************************************)
\* C17: validate tests the pattern first: InvalidURL when the URL fails the
\* pattern, whatever the kind; InvalidURLType when the pattern matches and
\* the kind is Invalid; Ok otherwise.
C17_ValidateOrder ==
    u_op = "validate" =>
       IF ~PatternIsMatch(as_str(u_url))
       THEN ~u_ret.ok /\ u_ret.kind = "InvalidURL"
       ELSE IF u_type = "Invalid"
       THEN ~u_ret.ok /\ u_ret.kind = "InvalidURLType"
       ELSE u_ret.ok

\* validate was called on a value of kind Invalid whose URL fails the pattern
C17_Witness ==
    /\ u_op = "validate"
    /\ u_type = "Invalid"
    /\ ~PatternIsMatch(as_str(u_url))
    /\ u_ret.kind = "InvalidURL"

(***************************************************************************)
(* Error handling of download (convert/mod.rs), checked under Spec.        *)
(***************************************************************************)
\* the JSON reply r has no boolean `success`
NoSuccess(r) == r.http = "ok" /\ r.success = "absent"

\* the run ended with Err naming the endpoint, after n requests, files untouched
ErrNaming(endpoint, n) ==
    /\ pc = "done"
    /\ result = "Err"
    /\ err.detail = endpoint
    /\ Len(reqs) = n
    /\ files = files0

\* C16: when the reply of one of the four endpoints has no boolean `success`,
\* check_database returns an error as its documentation says, and download
\* returns Err naming the endpoint, sends nothing more and writes no file.
C16_NoSuccessIsError ==
    /\ NoSuccess(checkdb_res) => /\ ~check_database(checkdb_res).ok
                                 /\ ErrNaming("/check_database.php", 1)
    /\ NoSuccess(getvd_res) => ErrNaming("/get_video_data.php", 2)
    /\ NoSuccess(dv_res) => ErrNaming("/download_video.php", 3)
    /\ NoSuccess(dl_res) => ErrNaming("/insert_to_database.php", 4)

\* C18: on a URL that YouTubeURL::new rejects download returns Err (it does
\* not panic), sends no request and touches no file.
C18_RejectedUrlIsErr ==
    (runs > 0 /\ ~NewOf[url].ok)
    => /\ pc = "done"
       /\ result = "Err"
       /\ reqs = <<>>
       /\ files = files0

\* the JSON reply r has a boolean `success` and lacks the field that goes
\* with it: f for true, error for false
Incomplete(r, f) ==
    /\ r.http = "ok"
    /\ \/ r.success = "true" /\ r[f] = NoField
       \/ r.success = "false" /\ r.error = NoField

\* C19: whatever JSON the remote answers, download ends in Ok or Err and
\* never panics; a reply with `success` that lacks the other fields of its
\* schema gives Err.
C19_NoPanicOnJson ==
    /\ (HasId /\ pc = "done" /\ cdn_res.http = "none") => result \in {"Ok", "Err"}
    /\ (\/ Incomplete(checkdb_res, "server_path")
        \/ Incomplete(getvd_res, "title")
        \/ Incomplete(dv_res, "download_link")
        \/ Incomplete(dl_res, "message"))
       => pc = "done" /\ result = "Err"

(***************************************************************************)
(* main of main.rs: the earlier command-line program.  It takes the        *)
(* identifier from the first query pair, asks check_database, and names    *)
(* the local file after the title the remote reports.                      *)
(***************************************************************************)

\* quality: 5 in the payloads of main.rs
MainQuality == 5

\* replies to main's check_database.  http = "notjson" is a body that
\* serde_json::from_str rejects; server_path and title are the fields of
\* `data` (ResponseCheckDatabaseData), both NoField when the value has no
\* `data` of that shape
MainCheckDatabaseReplies ==
    { [http |-> "ok", success |-> s, server_path |-> p, title |-> t, error |-> e] :
        s \in {"true", "false", "absent"}, p \in ServerPaths, t \in Titles,
        e \in ErrTexts \cup {NoField} }
    \cup { [http |-> "ok", success |-> s, server_path |-> NoField, title |-> NoField,
            error |-> e] :
             s \in {"true", "false", "absent"}, e \in ErrTexts \cup {NoField} }
    \cup { [http |-> h, success |-> "absent", server_path |-> NoField, title |-> NoField,
            error |-> NoField] : h \in {"fail", "notjson"} }

MainGetVideoDataReplies ==
    GetVideoDataReplies
    \cup { [http |-> "notjson", success |-> "absent", title |-> NoField, error |-> NoField] }

MainDownloadVideoReplies ==
    DownloadVideoReplies
    \cup { [http |-> "notjson", success |-> "absent", download_link |-> NoField,
            error |-> NoField] }

\* bodies the CDN may deliver to main: the last one is neither an mp3 nor UTF-8
MainBodies == Bodies \cup {"binary junk"}

MainCdnReplies ==
    { [http |-> "ok", body |-> b, create_ok |-> c, write_ok |-> w] :
        b \in MainBodies, c \in BOOLEAN, w \in BOOLEAN }
    \cup { [http |-> "fail", body |-> NoField, create_ok |-> TRUE, write_ok |-> TRUE] }

\* std::str::from_utf8(&download) is Ok
is_utf8(b) == b = "html page"

\* match_response: Exist when the value parses as ResponseCheckDatabaseExist
\* (a boolean success and data), else NoExist when it parses as
\* ResponseCheckDatabaseNoExist (a boolean success and error), else Unknown
match_response(r) ==
    IF r.success # "absent" /\ r.server_path # NoField /\ r.title # NoField THEN "Exist"
    ELSE IF r.success # "absent" /\ r.error # NoField THEN "NoExist"
    ELSE "Unknown"

\* the payloads of main.rs: quality and format_value are the literals 5 and 1
MainPayloadCheckDatabase(youtube_id) ==
    [ep |-> "check_database", format_value |-> 1, quality |-> MainQuality,
     youtube_id |-> youtube_id]

MainPayloadGetVideoData(u) == [ep |-> "get_video_data", url |-> u]

MainPayloadDownloadVideo(u, title) ==
    [ep |-> "download_video", format_value |-> 1, quality |-> MainQuality,
     title |-> title, url |-> u]

MainPayloadInsertDatabase(server_path, title, youtube_id) ==
    [ep |-> "insert_to_database", format_value |-> 1, quality |-> MainQuality,
     server_path |-> server_path, title |-> title, youtube_id |-> youtube_id]

\* .json(&payload) in main.rs: the numbers as their JSON text
MainSerialize(req) ==
    IF req.ep = "check_database"
    THEN [ep |-> req.ep, formatValue |-> ToString(req.format_value),
          quality |-> ToString(req.quality), youtube_id |-> req.youtube_id]
    ELSE IF req.ep = "get_video_data"
    THEN [ep |-> req.ep, url |-> req.url]
    ELSE IF req.ep = "download_video"
    THEN [ep |-> req.ep, formatValue |-> ToString(req.format_value),
          quality |-> ToString(req.quality), title |-> req.title, url |-> req.url]
    ELSE IF req.ep = "insert_to_database"
    THEN [ep |-> req.ep, formatValue |-> ToString(req.format_value),
          quality |-> ToString(req.quality), server_path |-> req.server_path,
          title |-> req.title, youtube_id |-> req.youtube_id]
    ELSE [ep |-> req.ep, server_path |-> req.server_path]

MainSend(req, next) == /\ reqs' = Append(reqs, req)
                       /\ wire' = Append(wire, MainSerialize(req))
                       /\ pc' = next
                       /\ UNCHANGED <<result, err>>

\* exit(1)
Exit(msg) == Return("Exit", [msg |-> msg, detail |-> "none"])

\* the URLs given on the command line and to download of convert.rs: those
\* of DownloadURLs and one whose v parameter is not the first query pair
ArgURLs ==
    DownloadURLs
    \cup { U(HostWww, << <<"w","a","t","c","h">> >>,
             << [k |-> <<"t">>, v |-> <<"1">>], [k |-> <<"v">>, v |-> ID1] >>) }

\* main up to the first await: the identifier is the value of the first
\* query pair whatever its key, panic!("bye") when the URL has no query;
\* then the check_database request is sent
main(u) ==
    /\ pc \in {"idle", "done"}
    /\ runs < MaxRuns
    /\ runs' = runs + 1
    /\ url' = u
    /\ files0' = files
    /\ checkdb_res' = NoReply
    /\ getvd_res' = NoReply
    /\ dv_res' = NoReply
    /\ dl_res' = NoReply
    /\ cdn_res' = NoCdnReply
    /\ UNCHANGED <<uvars, quality, files>>
    /\ IF u.query = <<>>
       THEN /\ youtube_url' = NoYouTubeURL
            /\ reqs' = <<>>
            /\ wire' = <<>>
            /\ Panic("bye")
       ELSE /\ youtube_url' = [url |-> u, type |-> "Invalid", id |-> u.query[1].v]
            /\ reqs' = << MainPayloadCheckDatabase(u.query[1].v) >>
            /\ wire' = << MainSerialize(MainPayloadCheckDatabase(u.query[1].v)) >>
            /\ pc' = "main_check_database"
            /\ result' = "none"
            /\ err' = NoError

\* the reply of check_database and the match on match_response
main_check_database_reply(r) ==
    /\ pc = "main_check_database"
    /\ checkdb_res' = r
    /\ UNCHANGED <<uvars, url, quality, youtube_url, getvd_res, dv_res, dl_res, cdn_res,
                   files, files0, runs>>
    /\ IF r.http = "fail"
       THEN Err("", "reqwest error") /\ UNCHANGED <<reqs, wire>>
       ELSE IF r.http = "notjson"
       THEN Panic("serde_json error") /\ UNCHANGED <<reqs, wire>>
       ELSE IF match_response(r) = "Exist"
       THEN IF Exists(files, Mp3Path(r.title))
            THEN Ok /\ UNCHANGED <<reqs, wire>>
            ELSE MainSend(CdnGet(r.server_path), "main_cdn_download")
       ELSE IF match_response(r) = "NoExist"
       THEN MainSend(MainPayloadGetVideoData(as_str(url)), "main_cdn_fetch")
       ELSE Exit("unknown response type") /\ UNCHANGED <<reqs, wire>>

\* cdn_fetch after its await: the title of the parsed ResponseGetVideoData,
\* then the request of srv_download
main_cdn_fetch_reply(r) ==
    /\ pc = "main_cdn_fetch"
    /\ getvd_res' = r
    /\ UNCHANGED <<uvars, url, quality, youtube_url, checkdb_res, dv_res, dl_res, cdn_res,
                   files, files0, runs>>
    /\ IF r.http = "fail"
       THEN Err("", "reqwest error") /\ UNCHANGED <<reqs, wire>>
       ELSE IF r.http = "notjson" \/ r.success = "absent" \/ r.title = NoField
       THEN Panic("Error parsing json") /\ UNCHANGED <<reqs, wire>>
       ELSE MainSend(MainPayloadDownloadVideo(as_str(url), r.title), "main_srv_download")

\* srv_download after its await: the download_link of the parsed
\* ResponseDownloadVideo, then the request of cdn_insert
main_srv_download_reply(r) ==
    /\ pc = "main_srv_download"
    /\ dv_res' = r
    /\ UNCHANGED <<uvars, url, quality, youtube_url, checkdb_res, getvd_res, dl_res, cdn_res,
                   files, files0, runs>>
    /\ IF r.http = "fail"
       THEN Err("", "reqwest error") /\ UNCHANGED <<reqs, wire>>
       ELSE IF r.http = "notjson" \/ r.success = "absent" \/ r.download_link = NoField
       THEN Panic("Error parsing json") /\ UNCHANGED <<reqs, wire>>
       ELSE MainSend(MainPayloadInsertDatabase(r.download_link, getvd_res.title,
                                               youtube_url.id),
                     "main_cdn_insert")

\* cdn_insert after its await: the text of the reply is printed and not
\* looked at, then the GET of cdn_download
main_cdn_insert_reply(r) ==
    /\ pc = "main_cdn_insert"
    /\ dl_res' = r
    /\ UNCHANGED <<uvars, url, quality, youtube_url, checkdb_res, getvd_res, dv_res, cdn_res,
                   files, files0, runs>>
    /\ IF r.http = "fail"
       THEN Err("", "reqwest error") /\ UNCHANGED <<reqs, wire>>
       ELSE MainSend(CdnGet(dv_res.download_link), "main_cdn_download")

\* cdn_download of main.rs after its await, called from either arm: the file
\* is named after the title; a failed write and a body that is not an mp3
\* are printed and the function returns Ok(())
main_cdn_download_reply(r) ==
    /\ pc = "main_cdn_download"
    /\ cdn_res' = r
    /\ UNCHANGED <<uvars, url, quality, youtube_url, reqs, wire, checkdb_res, getvd_res,
                   dv_res, dl_res, files0, runs>>
    /\ LET title == IF match_response(checkdb_res) = "Exist" THEN checkdb_res.title
                    ELSE getvd_res.title
           p == Mp3Path(title)
       IN IF r.http = "fail"
          THEN Err("", "reqwest error") /\ UNCHANGED files
          ELSE IF is_mp3(r.body)
          THEN IF ~r.create_ok
               THEN Panic("file creation should succeed") /\ UNCHANGED files
               ELSE IF ~r.write_ok
               THEN Ok /\ files' = WriteFile(files, p, PartialContent)
               ELSE Ok /\ files' = WriteFile(files, p, r.body)
          ELSE IF ~is_utf8(r.body)
          THEN Panic("called Result::unwrap() on an Err value: Utf8Error") /\ UNCHANGED files
          ELSE Ok /\ UNCHANGED files

NextMain ==
    \/ \E u \in ArgURLs : main(u)
    \/ \E r \in MainCheckDatabaseReplies : main_check_database_reply(r)
    \/ \E r \in MainGetVideoDataReplies : main_cdn_fetch_reply(r)
    \/ \E r \in MainDownloadVideoReplies : main_srv_download_reply(r)
    \/ \E r \in InsertToDatabaseReplies : main_cdn_insert_reply(r)
    \/ \E r \in MainCdnReplies : main_cdn_download_reply(r)

SpecMain == Init /\ [][NextMain]_vars

\* the title main names the local file after in this run: the one in the
\* Exist answer, else the one cdn_fetch returned
MainTitleIs(t) ==
    /\ checkdb_res.http = "ok"
    /\ \/ match_response(checkdb_res) = "Exist" /\ checkdb_res.title = t
       \/ /\ match_response(checkdb_res) = "NoExist"
          /\ getvd_res.http = "ok"
          /\ getvd_res.title = t

\* C20: when the local file of the requested resource (mp3/<title>.mp3)
\* exists as main starts, main sends no remote request and leaves that file
\* as it was, whichever answer check_database would give.
C20_MainSkipsWhenFileExists ==
    \A t \in Titles :
        (MainTitleIs(t) /\ Exists(files0, Mp3Path(t)))
        => /\ reqs = <<>>
           /\ files[Mp3Path(t)] = files0[Mp3Path(t)]

(***************************************************************************)
(* download of convert.rs: the earlier library version.  The host is       *)
(* asserted, the identifier is the value of the first query pair, the      *)
(* quality is the literal 5 and cdn_download reports nothing to its        *)
(* caller.  In the replies a field other than success carries a value      *)
(* when the JSON value parses as the struct of convert.rs with that field  *)
(* (these structs name their boolean _success), and NoField otherwise.     *)
(***************************************************************************)

\* Url::host_str
host_str(u) == u.host

\* download of convert.rs up to the first await
convert_download(u) ==
    /\ pc \in {"idle", "done"}
    /\ runs < MaxRuns
    /\ runs' = runs + 1
    /\ url' = u
    /\ files0' = files
    /\ checkdb_res' = NoReply
    /\ getvd_res' = NoReply
    /\ dv_res' = NoReply
    /\ dl_res' = NoReply
    /\ cdn_res' = NoCdnReply
    /\ UNCHANGED <<uvars, quality, files>>
    /\ IF host_str(u) # HostWww
       THEN /\ youtube_url' = NoYouTubeURL
            /\ reqs' = <<>>
            /\ wire' = <<>>
            /\ Panic("assertion left == right failed")
       ELSE IF u.query = <<>>
       THEN /\ youtube_url' = NoYouTubeURL
            /\ reqs' = <<>>
            /\ wire' = <<>>
            /\ Exit("error: youtube url is not valid")
       ELSE /\ youtube_url' = [url |-> u, type |-> "Invalid", id |-> u.query[1].v]
            /\ IF Exists(files, Mp3Path(u.query[1].v))
               THEN Ok /\ reqs' = <<>> /\ wire' = <<>>
               ELSE /\ reqs' = << MainPayloadCheckDatabase(u.query[1].v) >>
                    /\ wire' = << MainSerialize(MainPayloadCheckDatabase(u.query[1].v)) >>
                    /\ pc' = "convert_check_database"
                    /\ result' = "none"
                    /\ err' = NoError

\* the reply of check_database arrives
convert_check_database_reply(r) ==
    /\ pc = "convert_check_database"
    /\ checkdb_res' = r
    /\ UNCHANGED <<uvars, url, quality, youtube_url, getvd_res, dv_res, dl_res,
                   cdn_res, files, files0, runs>>
    /\ IF r.http = "fail"
       THEN Err("reqwest or serde error", "/check_database.php") /\ UNCHANGED <<reqs, wire>>
       ELSE IF r.success = "absent"
       THEN /\ Err("Unable to reference field success", "/check_database.php")
            /\ UNCHANGED <<reqs, wire>>
       ELSE IF r.success = "true"
       THEN IF r.server_path = NoField
            THEN Panic("Parsing as CheckDatabaseExist should work") /\ UNCHANGED <<reqs, wire>>
            ELSE MainSend(CdnGet(r.server_path), "convert_cdn_download")
       ELSE IF r.error = NoField
            THEN Panic("Parsing as CheckDatabaseNoExist should work") /\ UNCHANGED <<reqs, wire>>
            ELSE MainSend(MainPayloadGetVideoData(as_str(url)), "convert_cdn_fetch")

\* the reply of get_video_data arrives
convert_cdn_fetch_reply(r) ==
    /\ pc = "convert_cdn_fetch"
    /\ getvd_res' = r
    /\ UNCHANGED <<uvars, url, quality, youtube_url, checkdb_res, dv_res, dl_res,
                   cdn_res, files, files0, runs>>
    /\ IF r.http = "fail"
       THEN Err("reqwest or serde error", "/get_video_data.php") /\ UNCHANGED <<reqs, wire>>
       ELSE IF r.success = "absent"
       THEN /\ Err("Unable to reference field success", "/get_video_data.php")
            /\ UNCHANGED <<reqs, wire>>
       ELSE IF r.success = "false"
       THEN IF r.error = NoField
            THEN Panic("Parsing as GetVideoDataError should work") /\ UNCHANGED <<reqs, wire>>
            ELSE Err("/get_video_data.php failed..", r.error) /\ UNCHANGED <<reqs, wire>>
       ELSE IF r.title = NoField
            THEN Panic("Parsing as GetVideoData should work") /\ UNCHANGED <<reqs, wire>>
            ELSE MainSend(MainPayloadDownloadVideo(as_str(url), r.title),
                          "convert_srv_download")

\* the reply of download_video arrives
convert_srv_download_reply(r) ==
    /\ pc = "convert_srv_download"
    /\ dv_res' = r
    /\ UNCHANGED <<uvars, url, quality, youtube_url, checkdb_res, getvd_res, dl_res,
                   cdn_res, files, files0, runs>>
    /\ IF r.http = "fail"
       THEN Err("reqwest or serde error", "/download_video.php") /\ UNCHANGED <<reqs, wire>>
       ELSE IF r.success = "absent"
       THEN /\ Err("Unable to reference field success", "/download_video.php")
            /\ UNCHANGED <<reqs, wire>>
       ELSE IF r.success = "false"
       THEN IF r.error = NoField
            THEN Panic("Parsing as DownloadVideoError should work") /\ UNCHANGED <<reqs, wire>>
            ELSE Err("/download_video.php failed..", r.error) /\ UNCHANGED <<reqs, wire>>
       ELSE IF r.download_link = NoField
            THEN Panic("Parsing as DownloadVideoData should work") /\ UNCHANGED <<reqs, wire>>
            ELSE MainSend(MainPayloadInsertDatabase(r.download_link, getvd_res.title,
                                                    youtube_url.id),
                          "convert_cdn_insert")

\* the reply of insert_to_database arrives
convert_cdn_insert_reply(r) ==
    /\ pc = "convert_cdn_insert"
    /\ dl_res' = r
    /\ UNCHANGED <<uvars, url, quality, youtube_url, checkdb_res, getvd_res, dv_res,
                   cdn_res, files, files0, runs>>
    /\ IF r.http = "fail"
       THEN Err("reqwest or serde error", "/insert_to_database.php") /\ UNCHANGED <<reqs, wire>>
       ELSE IF r.success = "absent"
       THEN /\ Err("Unable to reference field success", "/insert_to_database.php")
            /\ UNCHANGED <<reqs, wire>>
       ELSE IF r.success = "false"
       THEN IF r.error = NoField
            THEN Panic("Parsing as InsertToDatabaseError should work") /\ UNCHANGED <<reqs, wire>>
            ELSE Err("/insert_to_database.php failed..", r.error) /\ UNCHANGED <<reqs, wire>>
       ELSE IF r.message = NoField
            THEN Panic("Parsing as InsertToDatabaseData should work") /\ UNCHANGED <<reqs, wire>>
            ELSE MainSend(CdnGet(dv_res.download_link), "convert_cdn_download")

\* CNVClient::cdn_download of convert.rs from its GET on, and the end of
\* download: a failed write and a body that is not an mp3 are printed, and
\* Ok(()) is returned
convert_cdn_download_reply(r) ==
    /\ pc = "convert_cdn_download"
    /\ cdn_res' = r
    /\ UNCHANGED <<uvars, url, quality, youtube_url, reqs, wire, checkdb_res, getvd_res,
                   dv_res, dl_res, files0, runs>>
    /\ LET p == Mp3Path(youtube_url.id)
       IN IF r.http = "fail"
          THEN Err("", "reqwest error") /\ UNCHANGED files
          ELSE IF ~is_mp3(r.body)
          THEN Ok /\ UNCHANGED files
          ELSE IF ~r.create_ok
          THEN Panic("file creation should succeed") /\ UNCHANGED files
          ELSE IF ~r.write_ok
          THEN Ok /\ files' = WriteFile(files, p, PartialContent)
          ELSE Ok /\ files' = WriteFile(files, p, r.body)

NextConvert ==
    \/ \E u \in ArgURLs : convert_download(u)
    \/ \E r \in CheckDatabaseReplies : convert_check_database_reply(r)
    \/ \E r \in GetVideoDataReplies : convert_cdn_fetch_reply(r)
    \/ \E r \in DownloadVideoReplies : convert_srv_download_reply(r)
    \/ \E r \in InsertToDatabaseReplies : convert_cdn_insert_reply(r)
    \/ \E r \in CdnReplies : convert_cdn_download_reply(r)

SpecConvert == Init /\ [][NextConvert]_vars

\* C21: download of convert.rs returns Ok only with the complete mp3 saved
\* by this run or a file already there; when the bytes are not an mp3 or
\* the write fails it returns Err.
C21_ConvertOkMeansSaved ==
    /\ (pc = "done" /\ result = "Ok" /\ youtube_url # NoYouTubeURL)
       => \/ Exists(files0, Mp3Path(youtube_url.id))
          \/ /\ Exists(files, Mp3Path(youtube_url.id))
             /\ files[Mp3Path(youtube_url.id)] = cdn_res.body
             /\ is_mp3(cdn_res.body)
    /\ (pc = "done" /\ cdn_res.http = "ok" /\ cdn_res.create_ok
        /\ (~is_mp3(cdn_res.body) \/ ~cdn_res.write_ok))
       => result = "Err"

\* C22: download of convert.rs and main of main.rs take as identifier the
\* value of the v query parameter of the URL, wherever v stands among the
\* query parameters: the identifier kept, and the one sent to check_database.
C22_IdIsVParameter ==
    (runs > 0 /\ VValues(url) # {} /\ youtube_url # NoYouTubeURL)
    => /\ youtube_url.id \in VValues(url)
       /\ Len(reqs) >= 1 => reqs[1].youtube_id \in VValues(url)

\* the requests of this run sent to the endpoint ep
ReqsTo(ep) == { i \in DOMAIN reqs : reqs[i].ep = ep }

\* C23: within one run of download one identifier and one location are
\* used: check_database and insert_to_database carry YouTubeURL.id, the only
\* file touched is mp3/<YouTubeURL.id>.mp3, and the server_path registered by
\* insert_to_database is the download_link of download_video and the
\* location of the GET that follows.
C23_OneIdOneLocation ==
    /\ \A i \in ReqsTo("check_database") \cup ReqsTo("insert_to_database") :
           reqs[i].youtube_id = youtube_url.id
    /\ \A p \in DOMAIN files :
           (p \notin DOMAIN files0 \/ files[p] # files0[p])
           => p = <<"mp3/", youtube_url.id, ".mp3">>
    /\ \A p \in DOMAIN files0 : p \in DOMAIN files
    /\ \A i \in ReqsTo("insert_to_database") :
           /\ reqs[i].server_path = dv_res.download_link
           /\ i < Len(reqs) => /\ reqs[i + 1].ep = "cdn_download"
                               /\ reqs[i + 1].server_path = reqs[i].server_path

\* a not-cached run registered the file and saved it
C23_Witness ==
    /\ pc = "done"
    /\ result = "Ok"
    /\ Len(reqs) = 5
    /\ reqs[4].ep = "insert_to_database"
    /\ reqs[4].youtube_id = youtube_url.id
    /\ reqs[5].server_path = reqs[4].server_path
    /\ <<"mp3/", youtube_url.id, ".mp3">> \in DOMAIN files
    /\ <<"mp3/", youtube_url.id, ".mp3">> \notin DOMAIN files0

\* an await of download completes: the remote answers or the request fails
Reply ==
    \/ \E r \in CheckDatabaseReplies : check_database_reply(r)
    \/ \E r \in GetVideoDataReplies : get_video_data_reply(r)
    \/ \E r \in DownloadVideoReplies : download_video_reply(r)
    \/ \E r \in InsertToDatabaseReplies : insert_to_database_reply(r)
    \/ \E r \in CdnReplies : cdn_download_reply(r)

\* download when every request it waits for is answered
SpecFair == Init /\ [][Next]_vars /\ WF_vars(Reply)

Endpoints == {"check_database", "get_video_data", "download_video", "insert_to_database",
              "cdn_download"}

\* no endpoint is called twice and the cached path is check_database and the GET
AtMostOnce ==
    /\ Len(reqs) <= 5
    /\ \A ep \in Endpoints : Cardinality(ReqsTo(ep)) <= 1
    /\ \A i \in DOMAIN reqs : reqs[i].ep \in Endpoints
    /\ (Cached /\ checkdb_res.server_path # NoField)
       => /\ Len(reqs) = 2
          /\ reqs[1].ep = "check_database"
          /\ reqs[2].ep = "cdn_download"

SavedOk == HasId /\ pc = "done" /\ result = "Ok" /\ Len(reqs) >= 2

\* a step starts a run of download on the URL u
Starts(u) == runs' = runs + 1 /\ url' = u

\* C25: once a run of download has returned Ok after saving the file, every
\* later run for that URL sends no request, returns Ok and leaves the file
\* as it is, because the path tested is the path written: a run that
\* returns Ok after saving leaves mp3/<id>.mp3 on disk, no later step removes
\* or changes a file that is on disk, and a run started while mp3/<id>.mp3
\* is on disk ends at once with Ok, without a request and without a write.
C25_SecondRunSkips ==
    /\ [](SavedOk => <<"mp3/", youtube_url.id, ".mp3">> \in DOMAIN files)
    /\ [][ /\ \A p \in DOMAIN files : p \in DOMAIN files' /\ files'[p] = files[p]
           /\ \A u \in DownloadURLs :
                (/\ Starts(u)
                 /\ NewOf[u].ok
                 /\ <<"mp3/", NewOf[u].val.id, ".mp3">> \in DOMAIN files)
                => /\ pc' = "done"
                   /\ result' = "Ok"
                   /\ reqs' = <<>>
                   /\ files' = files ]_vars

\* the second run for a URL whose first run saved the file
C25_Witness ==
    /\ runs = 2
    /\ pc = "done"
    /\ result = "Ok"
    /\ reqs = <<>>
    /\ HasId
    /\ <<"mp3/", youtube_url.id, ".mp3">> \in DOMAIN files0
    /\ files0[<<"mp3/", youtube_url.id, ".mp3">>] \in {"mp3 bytes A", "mp3 bytes B"}

\* C26: starting with no file, after any runs of download a file under
\* mp3/ holds the complete bytes that passed the MP3 test, and a run that
\* skips the sequence found such a complete file.
C26_FileIsCompleteMp3 ==
    /\ \A p \in DOMAIN files : is_mp3(files[p])
    /\ Skipped => is_mp3(files0[<<"mp3/", youtube_url.id, ".mp3">>])

\* C27: the id of every value YouTubeURL::new returns Ok is 11 characters
\* of [a-zA-Z0-9_-] and is the identifier a match of the validation pattern
\* captures in the URL; it is not empty and holds no '&', '?' or '/'.
C27_IdIsCapturedEleven ==
    (u_op = "new" /\ u_ret.ok)
    => LET id == u_ret.val.id
           s == as_str(u_url)
       IN /\ Len(id) = IdLen
          /\ \A m \in DOMAIN id : IsIdChar(id[m])
          /\ \E j \in 1..Len(s) : PatternIdAt(s, j) /\ id = SubSeq(s, j, j + IdLen - 1)

\* the host is youtube.com, a subdomain of it, or youtu.be
IsYouTubeHost(h) ==
    \/ h = <<"y","o","u","t","u","b","e",".","c","o","m">>
    \/ EndsWithAt(h, Len(h), <<".","y","o","u","t","u","b","e",".","c","o","m">>)
    \/ h = HostBe

\* C28: every URL YouTubeURL::new accepts has a YouTube host; a URL on
\* another host is rejected whatever its path and wherever the text
\* youtube.com/ stands in it.
C28_AcceptedHostIsYouTube ==
    (u_op = "new" /\ u_ret.ok) => IsYouTubeHost(u_url.host)

(***************************************************************************)
(* client.rs: the CNVRequester methods of CNVClient, called one after the  *)
(* other by a user of the trait.  Each action is one call: the request is  *)
(* logged in reqs, the reply of that call is kept and the others are       *)
(* forgotten, result is what the call returns.                             *)
(***************************************************************************)

\* quality in check_database of client.rs
ClientCheckQuality == 1

\* quality in srv_download and cdn_insert of client.rs
ClientQuality == 5

ClientPayloadCheckDatabase(youtube_id) ==
    [ep |-> "check_database", format_value |-> 1, quality |-> ClientCheckQuality,
     youtube_id |-> youtube_id]

ClientPayloadGetVideoData(u) == [ep |-> "get_video_data", url |-> u]

ClientPayloadDownloadVideo(u, title) ==
    [ep |-> "download_video", format_value |-> 1, quality |-> ClientQuality,
     title |-> title, url |-> u]

ClientPayloadInsertDatabase(server_path, title, youtube_id) ==
    [ep |-> "insert_to_database", format_value |-> 1, quality |-> ClientQuality,
     server_path |-> server_path, title |-> title, youtube_id |-> youtube_id]

\* the arguments the methods are called with
ClientIds == {ID1}
ClientUrls == { as_str(U(HostWww, << <<"w","a","t","c","h">> >>, << [k |-> <<"v">>, v |-> ID1] >>)) }
ClientPaths == {"cdn/a"}

\* what every call does to the log and to the replies of earlier calls
ClientCall(req) ==
    /\ pc \in {"idle", "done"}
    /\ runs < MaxCalls
    /\ runs' = runs + 1
    /\ reqs' = Append(reqs, req)
    /\ wire' = Append(wire, MainSerialize(req))
    /\ files0' = files
    /\ UNCHANGED <<uvars, url, quality, youtube_url>>

\* CNVClient::check_database: the JSON value of the reply
client_check_database(youtube_id, r) ==
    /\ ClientCall(ClientPayloadCheckDatabase(youtube_id))
    /\ checkdb_res' = r
    /\ getvd_res' = NoReply /\ dv_res' = NoReply /\ dl_res' = NoReply /\ cdn_res' = NoCdnReply
    /\ UNCHANGED files
    /\ IF r.http = "fail" THEN Err("", "reqwest error")
       ELSE IF r.http = "notjson" THEN Panic("serde_json error")
       ELSE Ok

\* CNVClient::cdn_fetch: the title of the reply
client_cdn_fetch(u, r) ==
    /\ ClientCall(ClientPayloadGetVideoData(u))
    /\ getvd_res' = r
    /\ checkdb_res' = NoReply /\ dv_res' = NoReply /\ dl_res' = NoReply /\ cdn_res' = NoCdnReply
    /\ UNCHANGED files
    /\ IF r.http = "fail" THEN Err("", "reqwest error")
       ELSE IF r.http = "notjson" \/ r.success = "absent" \/ r.title = NoField
       THEN Panic("Error parsing json")
       ELSE Ok

\* CNVClient::srv_download: the download_link of the reply
client_srv_download(u, title, r) ==
    /\ ClientCall(ClientPayloadDownloadVideo(u, title))
    /\ dv_res' = r
    /\ checkdb_res' = NoReply /\ getvd_res' = NoReply /\ dl_res' = NoReply /\ cdn_res' = NoCdnReply
    /\ UNCHANGED files
    /\ IF r.http = "fail" THEN Err("", "reqwest error")
       ELSE IF r.http = "notjson" \/ r.success = "absent" \/ r.download_link = NoField
       THEN Panic("Error parsing json")
       ELSE Ok

\* CNVClient::cdn_insert: the reply is parsed as ResponseInsertDatabase
client_cdn_insert(server_path, title, youtube_id, r) ==
    /\ ClientCall(ClientPayloadInsertDatabase(server_path, title, youtube_id))
    /\ dl_res' = r
    /\ checkdb_res' = NoReply /\ getvd_res' = NoReply /\ dv_res' = NoReply /\ cdn_res' = NoCdnReply
    /\ UNCHANGED files
    /\ IF r.http = "fail" THEN Err("", "reqwest error")
       ELSE IF r.success = "absent" \/ r.message = NoField
       THEN Panic("Error parsing json")
       ELSE Ok

\* CNVClient::cdn_download
client_cdn_download(server_path, youtube_id, r) ==
    /\ ClientCall(CdnGet(server_path))
    /\ cdn_res' = r
    /\ checkdb_res' = NoReply /\ getvd_res' = NoReply /\ dv_res' = NoReply /\ dl_res' = NoReply
    /\ LET p == Mp3Path(youtube_id)
       IN IF r.http = "fail"
          THEN Err("", "reqwest error") /\ UNCHANGED files
          ELSE IF is_mp3(r.body)
          THEN IF ~r.create_ok
               THEN Panic("file creation should succeed") /\ UNCHANGED files
               ELSE IF ~r.write_ok
               THEN Ok /\ files' = WriteFile(files, p, PartialContent)
               ELSE Ok /\ files' = WriteFile(files, p, r.body)
          ELSE IF ~is_utf8(r.body)
          THEN Panic("called Result::unwrap() on an Err value: Utf8Error") /\ UNCHANGED files
          ELSE Ok /\ UNCHANGED files

NextClient ==
    \/ \E i \in ClientIds, r \in MainCheckDatabaseReplies : client_check_database(i, r)
    \/ \E u \in ClientUrls, r \in MainGetVideoDataReplies : client_cdn_fetch(u, r)
    \/ \E u \in ClientUrls, t \in Titles, r \in MainDownloadVideoReplies :
          client_srv_download(u, t, r)
    \/ \E p \in ClientPaths, t \in Titles, i \in ClientIds, r \in InsertToDatabaseReplies :
          client_cdn_insert(p, t, i, r)
    \/ \E p \in ClientPaths, i \in ClientIds, r \in MainCdnReplies :
          client_cdn_download(p, i, r)

SpecClient == Init /\ [][NextClient]_vars

\* C29: in client.rs the quality sent to check_database is the quality sent
\* to download_video and to insert_to_database.
C29_ClientSameQuality ==
    \A i \in ReqsTo("check_database") :
        \A j \in ReqsTo("download_video") \cup ReqsTo("insert_to_database") :
            reqs[i].quality = reqs[j].quality

\* C30: match_response gives Exist only for a reply whose success is true
\* and NoExist only for one whose success is false, so main takes the cached
\* arm (the GET as second request, or the local file) exactly for the
\* replies on which download of convert/mod.rs takes it, and the not-cached
\* arm only when success is false.
C30_MatchFollowsSuccess ==
    (checkdb_res.http = "ok" /\ pc # "main_check_database")
    => /\ match_response(checkdb_res) = "Exist"
          <=> (checkdb_res.success = "true" /\ checkdb_res.server_path # NoField)
       /\ match_response(checkdb_res) = "NoExist" => checkdb_res.success = "false"
       /\ (Len(reqs) >= 2 /\ reqs[2].ep = "cdn_download") => checkdb_res.success = "true"
       /\ (Len(reqs) >= 2 /\ reqs[2].ep = "get_video_data") => checkdb_res.success = "false"

====
